---- MODULE Spec2Model ----
(***************************************************************************)
(* django-tracking: tracking/middleware.py                                 *)
(*                                                                         *)
(* The Visitor table, the BannedIP table and the wall clock are the shared *)
(* state.  Every request is served by a worker thread that runs the        *)
(* middleware handlers; a handler that talks to the database more than     *)
(* once is split at its database calls, which are the points where the     *)
(* threads of other requests can interleave.  Time is counted in minutes.  *)
(***************************************************************************)
EXTENDS Integers, Sequences, FiniteSets, TLC

\* ------------------------------------------------------------------ bounds
MaxRequests == 3            \* requests received when they may overlap
MaxSerial == 4              \* requests received when served one at a time
MaxResponses == 3           \* responses given to process_response

\* --------------------------------------------------------------- constants
FiveMinutes == 5            \* timedelta(minutes=5)
OneHour == 60               \* timedelta(hours=-1), timedelta(hours=1)
get_cleanup_timeout == 1    \* utils.get_cleanup_timeout(), in hours

NoTime == -1                \* None in a DateTimeField
NoPk == 0                   \* pk of a Visitor that was never saved

Workers == {1, 2}
Instants == {0, 5, 10, 60}  \* the readings of the clock, in minutes

\* ------------------------------------------------------------------ inputs
\* Strings that the code searches are sequences of characters.
UA_Mozilla == <<"m", "z">>
UA_Opera == <<"o", "p">>
UA_Bot == <<"a", "b", "o", "t">>
PathPage == <<"/", "p", "/", "m", "/">>
PathMedia == <<"/", "m", "/", "x">>

BanCandidates == {"5.6.7.8"}     \* the addresses the admin bans and unbans

\* UntrackedUserAgent.objects.all(): the keywords
UntrackedUserAgents == {<<"b", "o", "t">>}
\* utils.get_untracked_prefixes()
get_untracked_prefixes == {<<"/", "u", "/">>}
MEDIA_URL == <<"/", "m", "/">>
ADMIN_MEDIA_PREFIX == <<"/", "a", "/">>

\* The requests of the model: the plain one, and requests that differ from it
\* in the referer, the session key, the user agent, the address and the user,
\* or in one reason not to be tracked.
PlainRequest ==
    [ajax |-> FALSE, session_key |-> "s1", ip_address |-> "1.2.3.4",
     user_agent |-> UA_Mozilla, path |-> PathPage, referer |-> "http://a/",
     user |-> "AnonymousUser"]

Requests ==
    {PlainRequest,
     [PlainRequest EXCEPT !.referer = "NoHeader"],
     [PlainRequest EXCEPT !.session_key = "s2"],
     [PlainRequest EXCEPT !.session_key = "s2", !.user_agent = UA_Opera,
                          !.referer = "NoHeader"],
     [PlainRequest EXCEPT !.session_key = "s3"],
     [PlainRequest EXCEPT !.ip_address = "5.6.7.8", !.user = "alice"],
     [PlainRequest EXCEPT !.ajax = TRUE],
     [PlainRequest EXCEPT !.user_agent = UA_Bot],
     [PlainRequest EXCEPT !.path = PathMedia]}

\* The requests that are served at the same time as another request.
Overlapping ==
    {r \in Requests : /\ r.ip_address = "1.2.3.4" /\ r.user_agent = UA_Mozilla
                      /\ r.session_key \in {"s1", "s2"} /\ r.path = PathPage
                      /\ ~r.ajax /\ r.referer # "NoHeader"}

NoRequest ==
    [ajax |-> FALSE, session_key |-> "", ip_address |-> "", user_agent |-> <<>>,
     path |-> <<>>, referer |-> "", user |-> ""]

NoVisitor ==
    [pk |-> -1, session_key |-> "", ip_address |-> "", user |-> "",
     user_agent |-> <<>>, referrer |-> "", url |-> <<>>, page_views |-> 0,
     session_start |-> NoTime, last_update |-> NoTime]

\* ------------------------------------------------------------------- state
VARIABLES
    clock,      \* datetime.now()
    banned,     \* the BannedIP table: the banned addresses
    visitors,   \* the Visitor table: a set of rows
    next_pk,    \* the table's auto-increment
    served,     \* requests received so far
    pc,         \* per worker: where its request is
    request,    \* per worker: the request it serves
    now,        \* per worker: the local `now`
    visitor,    \* per worker: the local `visitor`
    how,        \* per worker: the branch that produced `visitor`
    outcome,    \* per worker: what process_request gave the client
    swept,      \* history: the last clean-up with a cutoff the clock has shown
    hist,       \* history: the latest run of tracked requests with one key
    merged,     \* history: the run of two clients with one address and agent
    rpc,        \* per worker: where its process_response is
    response,   \* per worker: the response it was given and its request
    title,      \* per worker: the local `title`
    result,     \* per worker: what process_response returned or raised
    collector,  \* what www.google-analytics.com does with a connection
    beacons,    \* the data the collector has received
    answered    \* responses given to process_response so far

\* the state of GoogleAnalyticsMiddleware and of the collector
respVars == <<rpc, response, title, result, collector, beacons, answered>>

vars ==
    <<clock, banned, visitors, next_pk, served, pc, request, now, visitor,
      how, outcome, swept, hist, merged, rpc, response, title, result,
      collector, beacons, answered>>

\* ----------------------------------------------------------- pure helpers
\* str.find(sub) != -1
Find(s, sub) ==
    \E i \in 1..(Len(s) - Len(sub) + 1) : SubSeq(s, i, i + Len(sub) - 1) = sub

\* str.startswith(prefix)
StartsWith(s, prefix) ==
    Len(prefix) <= Len(s) /\ SubSeq(s, 1, Len(prefix)) = prefix

\* request.META.get('HTTP_REFERER', 'unknown')
HttpReferer(req) == IF req.referer = "NoHeader" THEN "unknown" ELSE req.referer

\* user = request.user; AnonymousUser becomes None
RequestUser(req) == IF req.user = "AnonymousUser" THEN "None" ELSE req.user

\* the loop over UntrackedUserAgent.objects.all()
UntrackedAgent(req) ==
    \E keyword \in UntrackedUserAgents : Find(req.user_agent, keyword)

\* prefixes, and the loop that clears validURL
Prefixes == get_untracked_prefixes \cup {MEDIA_URL, ADMIN_MEDIA_PREFIX}
validURL(req) == ~ \E prefix \in Prefixes : StartsWith(req.path, prefix)

Tracked_WithAjax(req) == ~UntrackedAgent(req) /\ validURL(req)

\* the request goes on to the Visitor table
Tracked(req) == ~req.ajax /\ ~UntrackedAgent(req) /\ validURL(req)

IsBanned_Rows(req, ips) == req.ip_address \in {<<ip>> : ip \in ips}

\* request.META.get('REMOTE_ADDR', '') in ips
IsBanned(req, ips) == req.ip_address \in ips

\* Visitor.objects.get(session_key=..., ip_address=...): the rows it matches
ExactMatches(rows, req) ==
    {r \in rows : r.session_key = req.session_key /\ r.ip_address = req.ip_address}

RecentMatches_AnyAge(rows, req, t) ==
    {r \in rows : r.ip_address = req.ip_address /\ r.user_agent = req.user_agent}

RecentMatches_Strict(rows, req, t) ==
    {r \in rows : /\ r.ip_address = req.ip_address
                  /\ r.user_agent = req.user_agent
                  /\ r.last_update > t - FiveMinutes}

\* Visitor.objects.get(ip_address=, user_agent=, last_update__gte=cutoff)
RecentMatches(rows, req, t) ==
    {r \in rows : /\ r.ip_address = req.ip_address
                  /\ r.user_agent = req.user_agent
                  /\ r.last_update >= t - FiveMinutes}

\* Visitor(**attrs)
NewVisitor(req) ==
    [NoVisitor EXCEPT !.pk = NoPk, !.session_key = req.session_key,
                      !.ip_address = req.ip_address]

NewWindow_WithinHour(v, t) ==
    v.last_update = NoTime \/ v.last_update >= t - OneHour

NewWindow_Strict(v, t) == v.last_update = NoTime \/ v.last_update < t - OneHour

\* not visitor.last_update or visitor.last_update <= one_hour_ago
NewWindow(v, t) == v.last_update = NoTime \/ v.last_update <= t - OneHour

Updated_NoIncrement(v, req, t) ==
    LET reset == NewWindow(v, t) IN
    [v EXCEPT !.user = RequestUser(req),
              !.user_agent = req.user_agent,
              !.referrer = IF reset THEN HttpReferer(req) ELSE v.referrer,
              !.session_start = IF reset THEN t ELSE v.session_start,
              !.url = req.path,
              !.page_views = IF reset THEN 0 ELSE v.page_views,
              !.last_update = t]

Updated_NewReferrer(v, req, t) ==
    LET reset == NewWindow(v, t) IN
    [v EXCEPT !.user = RequestUser(req),
              !.user_agent = req.user_agent,
              !.referrer = HttpReferer(req),
              !.session_start = IF reset THEN t ELSE v.session_start,
              !.url = req.path,
              !.page_views = (IF reset THEN 0 ELSE v.page_views) + 1,
              !.last_update = t]

\* lines 85-106: the fields of `visitor` when it is saved
Updated(v, req, t) ==
    LET reset == NewWindow(v, t) IN
    [v EXCEPT !.user = RequestUser(req),
              !.user_agent = req.user_agent,
              !.referrer = IF reset THEN HttpReferer(req) ELSE v.referrer,
              !.session_start = IF reset THEN t ELSE v.session_start,
              !.url = req.path,
              !.page_views = (IF reset THEN 0 ELSE v.page_views) + 1,
              !.last_update = t]

\* The Visitor table takes a new row; nothing in it rejects a second row with
\* the session key and address of another.
Inserted(rows, v, fresh) == rows \cup {[v EXCEPT !.pk = fresh]}

\* visitor.save(): INSERT with a fresh pk, or write the row of visitor.pk
Saved(rows, v, fresh) ==
    IF v.pk = NoPk
    THEN Inserted(rows, v, fresh)
    ELSE {r \in rows : r.pk # v.pk} \cup {v}

\* The handlers that process_request runs, in order.
MIDDLEWARE_CLASSES == <<"ban", "track">>

\* where a request goes when handler h lets it pass
HandlerAfter(h) ==
    LET i == CHOOSE j \in 1..Len(MIDDLEWARE_CLASSES) : MIDDLEWARE_CLASSES[j] = h
    IN IF i < Len(MIDDLEWARE_CLASSES) THEN MIDDLEWARE_CLASSES[i + 1] ELSE "done"

Expired_Strict(rows, timeout) == {r \in rows : r.last_update < timeout}

\* Visitor.objects.filter(last_update__lte=timeout): the rows deleted
Expired(rows, timeout) == {r \in rows : r.last_update <= timeout}

PairOf(req) == <<req.session_key, req.ip_address>>

\* -------------------------------------------------- GoogleAnalyticsMiddleware
\* response.content as a sequence of tokens: "<t>" is the text <title>,
\* "</t>" is the text </title>, "\n" is a line break, any other token is a
\* character.
ContentTitle == <<"x", "<t>", "H", "i", "</t>", "x", "</t>">>
ContentPlain == <<"x", "H", "i">>
ContentBroken == <<"<t>", "H", "\n", "i", "</t>">>
ContentEmptyTitle == <<"<t>", "</t>", "<t>", "H", "</t>">>
Contents == {ContentTitle, ContentPlain, ContentBroken, ContentEmptyTitle}

\* the requests whose responses go through process_response
Answered == {PlainRequest, [PlainRequest EXCEPT !.referer = "NoHeader"]}

NoResponse == [request |-> NoRequest, content |-> <<>>]
NoResult == [kind |-> "none", value |-> NoResponse]

\* what the collector does with a connection: it answers, it refuses the
\* connection, or it accepts it and never answers
CollectorModes == {"answers", "refuses", "silent"}

\* title_re.search(content): the leftmost <title> that has a </title> after
\* it on the same line, up to the first such </title>; None without one
title_re_search(content) ==
    LET Closes(i) ==
            {j \in (i + 1)..Len(content) :
                /\ content[j] = "</t>"
                /\ \A k \in (i + 1)..(j - 1) : content[k] # "\n"}
        Opens == {i \in 1..Len(content) : content[i] = "<t>" /\ Closes(i) # {}}
    IN IF Opens = {}
       THEN [found |-> FALSE, group1 |-> <<>>]
       ELSE LET i == CHOOSE a \in Opens : \A b \in Opens : a <= b
                j == CHOOSE a \in Closes(i) : \A b \in Closes(i) : a <= b
            IN [found |-> TRUE, group1 |-> SubSeq(content, i + 1, j - 1)]

\* try: title = title_re.search(response.content).group(1); except: title = ''
TitleOf(content) ==
    LET match == title_re_search(content)
    IN IF match.found THEN match.group1 ELSE <<>>

\* info and data: the values the query string carries
Data(req, t) ==
    [utmdt |-> t,
     utmr |-> IF req.referer = "NoHeader" THEN "" ELSE req.referer,
     utmp |-> req.path,
     uservar |-> <<req.ip_address, "; ", req.user_agent>>]

\* -------------------------------------------------------------------- Init
\* No run is followed: n requests of `pair` were saved, the last one at `at`;
\* `made` tells that the first of them inserted the row, `seen` holds the pairs
\* that had a request saved.
NoHist ==
    [n |-> 0, pair |-> <<"", "">>, at |-> NoTime, ok |-> FALSE, made |-> FALSE,
     seen |-> {}]

\* No run of two clients is followed: n requests were saved since the empty
\* table, all from `ip` with user agent `agent`, the last one at `at` with the
\* session key `key`, the one before it with the session key `other`.
NoMerge ==
    [n |-> 0, ip |-> "", agent |-> <<>>, key |-> "", other |-> "", at |-> NoTime,
     ok |-> FALSE]

Init ==
    /\ clock = 0
    /\ banned = {}
    /\ visitors = {}
    /\ next_pk = 1
    /\ served = 0
    /\ pc = [w \in Workers |-> "idle"]
    /\ request = [w \in Workers |-> NoRequest]
    /\ now = [w \in Workers |-> NoTime]
    /\ visitor = [w \in Workers |-> NoVisitor]
    /\ how = [w \in Workers |-> "none"]
    /\ outcome = [w \in Workers |-> "none"]
    /\ swept = [timeout |-> NoTime, gone |-> {}]
    /\ hist = [NoHist EXCEPT !.ok = TRUE]
    /\ merged = [NoMerge EXCEPT !.ok = TRUE]
    /\ rpc = [w \in Workers |-> "idle"]
    /\ response = [w \in Workers |-> NoResponse]
    /\ title = [w \in Workers |-> <<>>]
    /\ result = [w \in Workers |-> NoResult]
    /\ collector = "answers"
    /\ beacons = {}
    /\ answered = 0

\* ----------------------------------------------------------------- actions
\* Time passes.
Tick ==
    /\ \E t \in Instants : t > clock /\ clock' = t
    /\ UNCHANGED respVars
    /\ UNCHANGED <<banned, visitors, next_pk, served, pc, request, now, visitor,
                   how, outcome, swept, hist, merged>>

\* The admin bans or unbans an address.
EditBannedIP ==
    /\ \E ip \in BanCandidates :
         banned' = IF ip \in banned THEN banned \ {ip} ELSE banned \cup {ip}
    /\ UNCHANGED respVars
    /\ UNCHANGED <<clock, visitors, next_pk, served, pc, request, now,
                   visitor, how, outcome, swept, hist, merged>>

\* A request goes to the first free worker.
FirstFree(w) == pc[w] = "idle" /\ \A v \in Workers : v < w => pc[v] # "idle"

\* The requests that may arrive now.
Arriving ==
    IF \A v \in Workers : pc[v] = "idle" THEN Requests
    ELSE IF \A v \in Workers : pc[v] = "idle" \/ request[v] \in Overlapping
         THEN Overlapping ELSE {}

\* BannedIPMiddleware.process_request, the first handler of a request.
BannedIPMiddleware_process_request(w) ==
    /\ FirstFree(w)
    /\ MIDDLEWARE_CLASSES[1] = "ban"
    /\ \E req \in Arriving :
         LET ips == banned IN
         /\ request' = [request EXCEPT ![w] = req]
         /\ IF IsBanned(req, ips)
            THEN /\ pc' = [pc EXCEPT ![w] = "done"]
                 /\ outcome' = [outcome EXCEPT ![w] = "Http404"]
            ELSE /\ pc' = [pc EXCEPT ![w] = HandlerAfter("ban")]
                 /\ outcome' = [outcome EXCEPT ![w] =
                       IF HandlerAfter("ban") = "done" THEN "pass" ELSE "none"]
    /\ served' = served + 1
    /\ UNCHANGED respVars
    /\ UNCHANGED <<clock, banned, visitors, next_pk, now, visitor, how,
                   swept, hist, merged>>

\* VisitorTrackingMiddleware.process_request, lines 28-64.
VisitorTrackingMiddleware_process_request(w) ==
    /\ pc[w] = "track"
    /\ IF Tracked(request[w])
       THEN /\ now' = [now EXCEPT ![w] = clock]
            /\ pc' = [pc EXCEPT ![w] = "get"]
            /\ outcome' = outcome
       ELSE /\ now' = now
            /\ pc' = [pc EXCEPT ![w] = HandlerAfter("track")]
            /\ outcome' = [outcome EXCEPT ![w] = "pass"]
    /\ UNCHANGED respVars
    /\ UNCHANGED <<clock, banned, visitors, next_pk, served, request,
                   visitor, how, swept, hist, merged>>

\* lines 67-69: Visitor.objects.get(**attrs)
GetBySession(w) ==
    /\ pc[w] = "get"
    /\ LET found == ExactMatches(visitors, request[w]) IN
       CASE Cardinality(found) = 1 ->
              /\ visitor' = [visitor EXCEPT ![w] = CHOOSE r \in found : TRUE]
              /\ how' = [how EXCEPT ![w] = "exact"]
              /\ pc' = [pc EXCEPT ![w] = "save"]
              /\ outcome' = outcome
         [] Cardinality(found) = 0 ->
              /\ pc' = [pc EXCEPT ![w] = "recent"]
              /\ UNCHANGED <<visitor, how, outcome>>
         [] OTHER ->   \* MultipleObjectsReturned is not caught
              /\ pc' = [pc EXCEPT ![w] = "done"]
              /\ outcome' = [outcome EXCEPT ![w] = "MultipleObjectsReturned"]
              /\ UNCHANGED <<visitor, how>>
    /\ UNCHANGED respVars
    /\ UNCHANGED <<clock, banned, visitors, next_pk, served, request, now,
                   swept, hist, merged>>

\* lines 70-82: the second get, or a new Visitor
GetRecent(w) ==
    /\ pc[w] = "recent"
    /\ LET found == RecentMatches(visitors, request[w], now[w]) IN
       CASE Cardinality(found) = 1 ->
              /\ visitor' = [visitor EXCEPT ![w] =
                    [(CHOOSE r \in found : TRUE) EXCEPT
                        !.session_key = request[w].session_key]]
              /\ how' = [how EXCEPT ![w] = "recent"]
              /\ pc' = [pc EXCEPT ![w] = "save"]
              /\ outcome' = outcome
         [] Cardinality(found) = 0 ->
              /\ visitor' = [visitor EXCEPT ![w] = NewVisitor(request[w])]
              /\ how' = [how EXCEPT ![w] = "new"]
              /\ pc' = [pc EXCEPT ![w] = "save"]
              /\ outcome' = outcome
         [] OTHER ->   \* MultipleObjectsReturned is not caught
              /\ pc' = [pc EXCEPT ![w] = "done"]
              /\ outcome' = [outcome EXCEPT ![w] = "MultipleObjectsReturned"]
              /\ UNCHANGED <<visitor, how>>
    /\ UNCHANGED respVars
    /\ UNCHANGED <<clock, banned, visitors, next_pk, served, request, now,
                   swept, hist, merged>>

\* The run after one more tracked request is saved: the request continues the
\* run of its pair less than an hour after the last one, or it is the first
\* request ever saved with its pair and starts a run.
Extended(h, req, t, branch) ==
    CASE h.ok /\ h.n > 0 /\ h.pair = PairOf(req) ->
           IF t >= h.at /\ t - h.at < OneHour
           THEN [h EXCEPT !.n = h.n + 1, !.at = t]
           ELSE NoHist
      [] h.ok /\ PairOf(req) \notin h.seen ->
           [n |-> 1, pair |-> PairOf(req), at |-> t, ok |-> TRUE,
            made |-> (branch = "new"), seen |-> h.seen \cup {PairOf(req)}]
      [] OTHER -> NoHist

\* The run of two clients after one more tracked request is saved: the first
\* request saved starts it; a request from the same address with the same user
\* agent continues it when its session key is the other client's and at most
\* 5 minutes have passed.
Alternated(m, req, t) ==
    CASE m.ok /\ m.n = 0 ->
           [n |-> 1, ip |-> req.ip_address, agent |-> req.user_agent,
            key |-> req.session_key, other |-> "", at |-> t, ok |-> TRUE]
      [] /\ m.ok /\ m.n > 0
         /\ req.ip_address = m.ip /\ req.user_agent = m.agent
         /\ req.session_key # m.key
         /\ (m.n = 1 \/ req.session_key = m.other)
         /\ t >= m.at /\ t - m.at <= FiveMinutes ->
           [m EXCEPT !.n = m.n + 1, !.key = req.session_key, !.other = m.key,
                     !.at = t]
      [] OTHER -> NoMerge

\* lines 84-107: update the fields and save
Save(w) ==
    /\ pc[w] = "save"
    /\ LET v == Updated(visitor[w], request[w], now[w]) IN
       /\ visitors' = Saved(visitors, v, next_pk)
       /\ next_pk' = IF v.pk = NoPk THEN next_pk + 1 ELSE next_pk
    /\ hist' = Extended(hist, request[w], now[w], how[w])
    /\ merged' = Alternated(merged, request[w], now[w])
    /\ pc' = [pc EXCEPT ![w] = HandlerAfter("track")]
    /\ outcome' = [outcome EXCEPT ![w] = "pass"]
    /\ UNCHANGED respVars
    /\ UNCHANGED <<clock, banned, served, request, now, visitor, how, swept>>

\* process_request has returned or raised: the worker is free again.
Deliver(w) ==
    /\ pc[w] = "done"
    /\ pc' = [pc EXCEPT ![w] = "idle"]
    /\ request' = [request EXCEPT ![w] = NoRequest]
    /\ now' = [now EXCEPT ![w] = NoTime]
    /\ visitor' = [visitor EXCEPT ![w] = NoVisitor]
    /\ how' = [how EXCEPT ![w] = "none"]
    /\ outcome' = [outcome EXCEPT ![w] = "none"]
    /\ UNCHANGED respVars
    /\ UNCHANGED <<clock, banned, visitors, next_pk, served, swept, hist, merged>>

\* VisitorCleanUpMiddleware.process_request
VisitorCleanUpMiddleware_process_request ==
    LET timeout == clock - get_cleanup_timeout * OneHour
        gone == Expired(visitors, timeout)
    IN
    /\ visitors' = visitors \ gone
    /\ swept' = IF timeout < 0 THEN swept ELSE [timeout |-> timeout, gone |-> gone]
    /\ hist' = IF gone = {} THEN hist ELSE NoHist
    /\ merged' = IF gone = {} THEN merged ELSE NoMerge
    /\ UNCHANGED respVars
    /\ UNCHANGED <<clock, banned, next_pk, served, pc, request, now,
                   visitor, how, outcome>>

\* A request arrives, while others may still be served.
Arrival(w) == served < MaxRequests /\ BannedIPMiddleware_process_request(w)

Next ==
    \/ Tick
    \/ EditBannedIP
    \/ VisitorCleanUpMiddleware_process_request
    \/ \E w \in Workers :
         \/ Arrival(w)
         \/ VisitorTrackingMiddleware_process_request(w)
         \/ GetBySession(w)
         \/ GetRecent(w)
         \/ Save(w)
         \/ Deliver(w)

Spec == Init /\ [][Next]_vars

\* The same handlers when the server takes one request at a time: a request
\* arrives, and the clean-up runs, only while no other request is served.
Quiet == \A w \in Workers : pc[w] = "idle"

SerialArrival(w) ==
    Quiet /\ served < MaxSerial /\ BannedIPMiddleware_process_request(w)

SerialCleanUp == Quiet /\ VisitorCleanUpMiddleware_process_request

SerialNext ==
    \/ Tick
    \/ EditBannedIP
    \/ SerialCleanUp
    \/ \E w \in Workers :
         \/ SerialArrival(w)
         \/ VisitorTrackingMiddleware_process_request(w)
         \/ GetBySession(w)
         \/ GetRecent(w)
         \/ Save(w)
         \/ Deliver(w)

SeqSpec == Init /\ [][SerialNext]_vars

\* The handlers when the database can fail: a call of a worker to the Visitor
\* table (lines 68, 74-78, 107) raises DatabaseError, which no handler catches,
\* and process_request ends with it.
StoreFails(w) ==
    /\ pc[w] \in {"get", "recent", "save"}
    /\ pc' = [pc EXCEPT ![w] = "done"]
    /\ outcome' = [outcome EXCEPT ![w] = "DatabaseError"]
    /\ UNCHANGED respVars
    /\ UNCHANGED <<clock, banned, visitors, next_pk, served, request, now,
                   visitor, how, swept, hist, merged>>

FaultNext == Next \/ \E w \in Workers : StoreFails(w)

FaultSpec == Init /\ [][FaultNext]_vars

\* ------------------------------------------ GoogleAnalyticsMiddleware steps
\* the state of the tracking middleware and of its tables
trackVars ==
    <<clock, banned, visitors, next_pk, served, pc, request, now, visitor,
      how, outcome, swept, hist, merged>>

RespFirstFree(w) == rpc[w] = "idle" /\ \A v \in Workers : v < w => rpc[v] # "idle"

\* GoogleAnalyticsMiddleware.process_response, lines 139-169: the title, info
\* and data
GoogleAnalyticsMiddleware_process_response(w) ==
    /\ RespFirstFree(w)
    /\ answered < MaxResponses
    /\ \E req \in Answered : \E content \in Contents :
         /\ response' = [response EXCEPT ![w] =
                            [request |-> req, content |-> content]]
         /\ title' = [title EXCEPT ![w] = TitleOf(content)]
    /\ rpc' = [rpc EXCEPT ![w] = "urlopen"]
    /\ answered' = answered + 1
    /\ UNCHANGED <<result, collector, beacons>>
    /\ UNCHANGED trackVars

\* lines 172-175: urllib2.urlopen(url, data) returns when the collector has
\* answered and raises URLError when the connection fails; it is given no
\* timeout, and while the collector is silent the call does not return.
Urlopen(w) ==
    /\ rpc[w] = "urlopen"
    /\ collector # "silent"
    /\ IF collector = "answers"
       THEN /\ beacons' = beacons \cup {Data(response[w].request, title[w])}
            /\ result' = [result EXCEPT ![w] =
                             [kind |-> "returned", value |-> response[w]]]
       ELSE /\ beacons' = beacons
            /\ result' = [result EXCEPT ![w] =
                             [kind |-> "URLError", value |-> NoResponse]]
    /\ rpc' = [rpc EXCEPT ![w] = "done"]
    /\ UNCHANGED <<response, title, collector, answered>>
    /\ UNCHANGED trackVars

\* process_response has returned or raised: the worker is free again.
RespDeliver(w) ==
    /\ rpc[w] = "done"
    /\ rpc' = [rpc EXCEPT ![w] = "idle"]
    /\ response' = [response EXCEPT ![w] = NoResponse]
    /\ title' = [title EXCEPT ![w] = <<>>]
    /\ result' = [result EXCEPT ![w] = NoResult]
    /\ UNCHANGED <<collector, beacons, answered>>
    /\ UNCHANGED trackVars

\* The collector or the network to it changes.
CollectorChanges ==
    /\ \E m \in CollectorModes : m # collector /\ collector' = m
    /\ UNCHANGED <<rpc, response, title, result, beacons, answered>>
    /\ UNCHANGED trackVars

RespNext ==
    \/ CollectorChanges
    \/ \E w \in Workers :
         \/ GoogleAnalyticsMiddleware_process_response(w)
         \/ Urlopen(w)
         \/ RespDeliver(w)

RespSpec == Init /\ [][RespNext]_vars

\* The worker threads keep running: a call of urlopen ends if the collector
\* answers or refuses the connection again and again, and a worker whose call
\* has ended is freed.  Nothing makes the collector change.
RespLiveSpec ==
    /\ Init /\ [][RespNext]_vars
    /\ \A w \in Workers : SF_vars(Urlopen(w)) /\ WF_vars(RespDeliver(w))

\* ------------------------------------------------------------------ claims
\* The row that a worker's save writes: the new row it inserts, or the row of
\* the Visitor it resolved.  A worker saves when it leaves "save".
Saves(w) == pc[w] = "save" /\ pc'[w] # "save"
SavedPk(w) == IF visitor[w].pk = NoPk THEN next_pk ELSE visitor[w].pk
SavedRows(w) == {r \in visitors' : r.pk = SavedPk(w)}

RowsOfPair(key, ip) ==
    {r \in visitors : r.session_key = key /\ r.ip_address = ip}

\* C1: in every reachable state, whatever the interleaving of tracked requests
\* and clean-ups, the Visitor table holds at most one row for any pair of
\* session key and address.
C1_OneVisitorPerPair ==
    \A r \in visitors : Cardinality(RowsOfPair(r.session_key, r.ip_address)) = 1

SameKey(w) ==
    {r \in visitors : /\ r.session_key = request[w].session_key
                      /\ r.ip_address = request[w].ip_address}
Within5(w) ==
    {r \in visitors : /\ r.ip_address = request[w].ip_address
                      /\ r.user_agent = request[w].user_agent
                      /\ r.last_update >= now[w] - 5}
FirstLookup(w) == pc[w] = "get" /\ pc'[w] # "get"
SecondLookup(w) == pc[w] = "recent" /\ pc'[w] # "recent"
Pks(rows) == {r.pk : r \in rows}

\* C3: a tracked request with no exact match, while the table holds a Visitor
\* with its address and user agent and last_update >= now - 5 minutes, is
\* attributed to that Visitor: the request takes the row with the session key
\* overwritten by its own, and its save writes that row and adds no other.
C3_RecentVisitorAdopted ==
    [][\A w \in Workers :
          /\ (SecondLookup(w) /\ Within5(w) # {}) =>
                /\ pc'[w] = "save"
                /\ \E r \in Within5(w) :
                     visitor'[w] = [r EXCEPT !.session_key = request[w].session_key]
          /\ (Saves(w) /\ how[w] = "recent") =>
                /\ \E q \in SavedRows(w) : q.session_key = request[w].session_key
                /\ Pks(visitors') \subseteq Pks(visitors) \cup {visitor[w].pk}]_vars

\* C4: a tracked request with no exact match, while every Visitor with its
\* address and user agent has last_update < now - 5 minutes, saves a new row
\* with its session key and address, and every row of the table stays as it is.
C4_NewVisitorCreated ==
    [][\A w \in Workers :
          /\ (FirstLookup(w) /\ SameKey(w) = {}) => pc'[w] = "recent"
          /\ (SecondLookup(w) /\ Within5(w) = {}) =>
                /\ pc'[w] = "save"
                /\ visitor'[w].pk = NoPk
                /\ visitor'[w].session_key = request[w].session_key
                /\ visitor'[w].ip_address = request[w].ip_address
          /\ (Saves(w) /\ visitor[w].pk = NoPk) =>
                \E q \in visitors' \ visitors :
                     /\ visitors' = visitors \cup {q}
                     /\ q.pk \notin Pks(visitors)
                     /\ q.session_key = request[w].session_key
                     /\ q.ip_address = request[w].ip_address]_vars

C4_Witness ==
    \E w \in Workers : \E r, q \in visitors :
        /\ pc[w] = "done" /\ visitor[w].pk = NoPk
        /\ r.ip_address = request[w].ip_address
        /\ r.user_agent = request[w].user_agent
        /\ r.session_key # request[w].session_key
        /\ r.last_update < now[w] - 5
        /\ q.session_key = request[w].session_key
        /\ q.ip_address = request[w].ip_address
        /\ q.last_update = now[w] /\ q.page_views = 1

\* C5: when the Visitor a tracked request resolved is new, has no last_update,
\* or has last_update <= now - 1 hour, the row it saves has page_views 1, the
\* referrer of this request ('unknown' without the header) and session_start
\* equal to now.
C5_NewWindowResets ==
    [][\A w \in Workers :
          (/\ Saves(w)
           /\ \/ visitor[w].pk = NoPk
              \/ visitor[w].last_update = NoTime
              \/ visitor[w].last_update <= now[w] - 60) =>
             /\ SavedRows(w) # {}
             /\ \A q \in SavedRows(w) :
                  /\ q.page_views = 1
                  /\ q.session_start = now[w]
                  /\ q.referrer = IF request[w].referer = "NoHeader"
                                  THEN "unknown" ELSE request[w].referer]_vars

C5_Witness ==
    \E w \in Workers : \E q \in visitors :
        /\ pc[w] = "done" /\ how[w] = "exact"
        /\ visitor[w].last_update = now[w] - 60
        /\ visitor[w].referrer = "http://a/"
        /\ request[w].referer = "NoHeader"
        /\ q.pk = visitor[w].pk
        /\ q.page_views = 1 /\ q.referrer = "unknown" /\ q.session_start = now[w]

\* C9: when the Visitor a tracked request resolved is an existing row with
\* last_update > now - 1 hour, the save of the request leaves the referrer and
\* the session_start of the row in the table as they are.
C9_WindowKeepsReferrer ==
    [][\A w \in Workers :
          (/\ Saves(w)
           /\ visitor[w].pk # NoPk
           /\ visitor[w].last_update # NoTime
           /\ visitor[w].last_update > now[w] - 60) =>
             \A r \in visitors : \A q \in visitors' :
                 r.pk = q.pk => /\ q.referrer = r.referrer
                                /\ q.session_start = r.session_start]_vars

\* C6: a request that is AJAX, whose user agent contains an untracked
\* keyword, or whose path starts with an untracked prefix never gets to the
\* Visitor table, and no step of its worker changes a row of the table.
Excluded(req) ==
    \/ req.ajax
    \/ \E keyword \in UntrackedUserAgents : Find(req.user_agent, keyword)
    \/ \E prefix \in get_untracked_prefixes \cup {MEDIA_URL, ADMIN_MEDIA_PREFIX} :
         StartsWith(req.path, prefix)

C6_ExcludedLeavesTable ==
    [][\A w \in Workers :
          Excluded(request'[w]) =>
             /\ pc'[w] \notin {"get", "recent", "save"}
             /\ pc'[w] # pc[w] => visitors' = visitors]_vars

C6_Witness ==
    \E w \in Workers :
        /\ pc[w] = "done" /\ outcome[w] = "pass"
        /\ request[w].ajax
        /\ visitors # {}

\* C7: a request whose address is banned when BannedIPMiddleware checks it
\* ends with Http404, and goes from there to no lookup and no save.
C7_BannedNeverTracked ==
    [][\A w \in Workers :
          /\ (pc[w] = "idle" /\ pc'[w] # "idle"
                /\ request'[w].ip_address \in banned) =>
                /\ pc'[w] = "done"
                /\ outcome'[w] = "Http404"
                /\ visitors' = visitors
          /\ (pc[w] = "done" /\ outcome[w] = "Http404" /\ pc'[w] # "done") =>
                /\ pc'[w] = "idle"
                /\ visitors' = visitors]_vars

C7_Witness ==
    \E w \in Workers :
        /\ pc[w] = "done" /\ outcome[w] = "Http404"
        /\ request[w].ip_address \in banned
        /\ visitors # {}

\* C8: a clean-up at time now deletes exactly the rows with
\* last_update <= now - retention; the rows with a later last_update stay in
\* the table as they are.
C8_CleanUpDeletesOld ==
    [][VisitorCleanUpMiddleware_process_request =>
          visitors' = {r \in visitors :
                          r.last_update > clock - get_cleanup_timeout * 60}]_vars

C8_Witness ==
    /\ swept.timeout = clock - get_cleanup_timeout * 60
    /\ \E r \in swept.gone : r.last_update = swept.timeout
    /\ swept.gone \cap visitors = {}
    /\ \E r \in visitors : r.last_update > swept.timeout /\ r.last_update < clock

\* C10: the last_update of a row never decreases from one save to the next,
\* whatever the interleaving of the requests attributed to the row.
C10_LastUpdateNeverDecreases ==
    [][\A r \in visitors : \A q \in visitors' :
          r.pk = q.pk => q.last_update >= r.last_update]_vars

\* C11: within a window, the save of a tracked request that resolved an
\* existing row adds exactly 1 to the page_views the table holds for the row,
\* whatever other requests read and save the row in between.
C11_PageViewsGrowByOne ==
    [][\A w \in Workers :
          (/\ Saves(w)
           /\ visitor[w].pk # NoPk
           /\ visitor[w].last_update # NoTime
           /\ visitor[w].last_update > now[w] - 60) =>
             \A r \in visitors : \A q \in visitors' :
                 (r.pk = q.pk /\ q.pk = visitor[w].pk) =>
                     q.page_views = r.page_views + 1]_vars

\* C12: a tracked request with no exact match, while two or more Visitors have
\* its address and user agent and last_update >= now - 5 minutes, does not
\* fail: it takes the one of them that was updated last, with the session key
\* overwritten by its own.
C12_MostRecentAdopted ==
    [][\A w \in Workers :
          (SecondLookup(w) /\ Cardinality(Within5(w)) >= 2) =>
             /\ pc'[w] = "save"
             /\ outcome'[w] # "MultipleObjectsReturned"
             /\ \E r \in Within5(w) :
                  /\ \A o \in Within5(w) : o.last_update <= r.last_update
                  /\ visitor'[w] = [r EXCEPT !.session_key = request[w].session_key]]_vars

\* C13: process_response never raises and returns the response it was given
\* as it is: with a content that has no title the title is the empty string
\* and the call goes on to the dispatch, and the call returns the response
\* also when the dispatch to the collector fails.
C13_AlwaysReturnsResponse ==
    [][\A w \in Workers :
          /\ (rpc[w] = "idle" /\ rpc'[w] # "idle") =>
                /\ rpc'[w] = "urlopen"
                /\ (\A i \in 1..Len(response'[w].content) :
                        response'[w].content[i] # "<t>") => title'[w] = <<>>
          /\ (rpc[w] = "urlopen" /\ rpc'[w] # "urlopen") =>
                /\ result'[w].kind = "returned"
                /\ result'[w].value = response[w]]_vars

\* C15: the call of process_response that has come to the dispatch of the
\* beacon eventually ends and gives the response over, also when the collector
\* never answers.
C15_ResponseDelivered ==
    \A w \in Workers : (rpc[w] = "urlopen") ~> (rpc[w] = "done")

\* C14: a request that passed the ban check goes on to normal handling also
\* when a call to the Visitor table fails: a lookup or a save that ends the
\* handler, for any reason but several rows found, ends it with the request
\* passed on.
C14_StoreFailureIsolated ==
    [][\A w \in Workers :
          (/\ pc[w] \in {"get", "recent", "save"}
           /\ pc'[w] = "done"
           /\ outcome'[w] # "MultipleObjectsReturned") =>
             outcome'[w] = "pass"]_vars

\* C16: every tracked request does the exact lookup first, the lookup by
\* address and user agent only when the exact one found nothing, and then one
\* save that writes one row; no other step of it writes, and after an exact
\* match the save keeps the session key of the row and leaves the other rows
\* as they are.
C16_LookupsThenOneSave ==
    [][\A w \in Workers :
          /\ (pc[w] = "track" /\ pc'[w] # "track" /\ ~Excluded(request[w])) =>
                pc'[w] = "get"
          /\ (pc[w] = "get" /\ pc'[w] # "get") =>
                /\ pc'[w] \in {"recent", "save"}
                /\ pc'[w] = "recent" <=> SameKey(w) = {}
          /\ (pc[w] = "recent" /\ pc'[w] # "recent") => pc'[w] = "save"
          /\ (pc[w] # pc'[w] /\ pc[w] # "save") => visitors' = visitors
          /\ Saves(w) =>
                /\ pc'[w] = "done"
                /\ \E q \in visitors' :
                     visitors' = {r \in visitors : r.pk # q.pk} \cup {q}
          /\ (Saves(w) /\ how[w] = "exact") =>
                \A r \in visitors : \A q \in visitors' :
                    r.pk = q.pk =>
                       /\ q.session_key = r.session_key
                       /\ r.pk # visitor[w].pk => q = r]_vars

\* C17: after two requests with one pair of session key and address were
\* served at the same time and both inserted a row, the next tracked request
\* with the pair succeeds: its exact lookup takes one of the rows of the pair
\* and the request goes on to its save.
C17_NextRequestReconciles ==
    [][\A w \in Workers :
          (FirstLookup(w) /\ Cardinality(SameKey(w)) >= 2) =>
             /\ pc'[w] = "save"
             /\ visitor'[w] \in SameKey(w)]_vars

\* C18: two clients with one address and one user agent and different session
\* keys, whose requests alternate, one at a time, at most 5 minutes apart, are
\* merged: the table holds one row, with the session key of the last request
\* and with page_views counting the requests of both clients.
C18_TwoClientsMerged ==
    (merged.ok /\ merged.n >= 2) =>
        /\ Cardinality(visitors) = 1
        /\ \A r \in visitors :
             /\ r.session_key = merged.key
             /\ r.ip_address = merged.ip
             /\ r.page_views = merged.n

C18_Witness ==
    /\ merged.ok /\ merged.n = 4 /\ merged.at >= 10
    /\ \E r \in visitors :
         r.page_views = 4 /\ r.session_key = merged.key /\ r.session_start = 0

\* C19: the save of a request that adopted a row by address and user agent
\* does not restart the window: it adds 1 to the page_views the table holds
\* for the row and leaves the row's referrer and session_start as they are.
C19_AdoptionKeepsWindow ==
    [][\A w \in Workers :
          (Saves(w) /\ how[w] = "recent") =>
             /\ SavedRows(w) # {}
             /\ \A r \in visitors : \A q \in SavedRows(w) :
                  r.pk = q.pk =>
                     /\ q.page_views = r.page_views + 1
                     /\ q.referrer = r.referrer
                     /\ q.session_start = r.session_start]_vars

\* C20: after any sequence of tracked requests and clean-ups, served one at a
\* time, every row of the Visitor table has page_views >= 1, a session_start
\* and a last_update that are set, and session_start <= last_update.
C20_RowsWellFormed ==
    \A r \in visitors :
        /\ r.page_views >= 1
        /\ r.session_start # NoTime
        /\ r.last_update # NoTime
        /\ r.session_start <= r.last_update

C20_Witness ==
    /\ swept.gone # {}
    /\ \E r, q \in visitors :
         /\ r.pk # q.pk
         /\ r.page_views >= 2 /\ r.session_start < r.last_update
         /\ q.page_views = 1 /\ q.session_start = q.last_update

====
